---- MODULE Spec2Model ----
(***************************************************************************)
(* A model of smart_open/smart_open_lib.py: the multipart upload writer    *)
(* S3OpenWrite, the line generator s3_iter_lines and the parallel bucket   *)
(* iterator s3_iter_bucket.                                                *)
(*                                                                         *)
(* Each component has its own variables, initial condition, next-state     *)
(* relation and specification (SpecWrite, SpecLines, SpecBucket); the      *)
(* variables of the other components stay at their idle values.            *)
(***************************************************************************)
EXTENDS Integers, Sequences, FiniteSets, Bags, TLC

VARIABLES
    \* ---- S3OpenWrite: the object's fields
    min_part_size,  \* self.min_part_size
    lines,          \* self.lines: the pending byte strings
    total_size,     \* self.total_size
    chunk_bytes,    \* self.chunk_bytes
    parts,          \* self.parts
    \* ---- S3OpenWrite: the backend and the caller
    requests,       \* every request sent to the backend (self.mp, self.outbucket), in order
    wpc,            \* "scope": inside the with block; "exited": __exit__ has returned or raised
    exc,            \* the exception now propagating inside the with block, or "none"
    raised,         \* the exception that left __exit__ towards the caller, or "none"
    written,        \* history: the concatenation of every byte string write() accepted
    nwrites,        \* history: the number of write() calls
    closeLog,       \* history: one record per call of close()
    exitLog,        \* history: the record of the call of __exit__ (at most one)
    \* ---- s3_iter_lines: the generator's frame
    lpc,            \* where the generator stands: "start", "for", "while", "last", "done", "TypeError"
    buf,            \* buf
    start,          \* start (an offset into buf, from 0)
    line_out,       \* history: the lines yielded so far
    key_read,       \* history: the chunks the key has delivered so far
    \* ---- s3_iter_bucket: the arguments
    bucket_list,    \* bucket.list(prefix=prefix): the key names, in listing order
    accept_key,     \* the set of names accept_key answers True for
    key_limit,      \* key_limit: None or a number
    workers,        \* workers
    \* ---- s3_iter_bucket: the generator's frame and the pool
    gpc,            \* where the generator stands: "start", "next", "yield", "done", "raised", "closed"
    key_no,         \* key_no
    pool,           \* the pool: "none", "running", "terminated"
    list_pos,       \* how many keys the pool's task thread has drawn from `keys`
    length_set,     \* the task thread has told the result iterator how many tasks there are
    taskq,          \* the tasks waiting for a worker
    in_work,        \* the tasks the workers are running
    outq,           \* the results not yet taken by the generator, in completion order
    key_out,        \* history: the names yielded so far
    \* ---- ParseUri and smart_open
    uri,            \* the uri argument, a sequence of characters
    parsed,         \* None, or Some(the outcome of ParseUri(uri))
    opened,         \* None, or Some(the outcome of smart_open(uri, mode))
    \* ---- S3OpenRead
    obj,            \* the bytes of the object the reader was opened on
    keys,           \* the offset of the open response of each boto key, or None
    passes,         \* how many times __iter__ was called
    rcalls,         \* how many times read or seek was called
    read_since,     \* history: bytes returned by read() since its key was last reopened
    last_read,      \* history: None, or Some(the last read(): size, data, ...)
    rexc            \* the exception of the last call of read or seek, or "none"

wvars == <<min_part_size, lines, total_size, chunk_bytes, parts, requests, wpc, exc,
           raised, written, nwrites, closeLog, exitLog>>

lvars == <<lpc, buf, start, line_out, key_read>>

bvars == <<bucket_list, accept_key, key_limit, workers, gpc, key_no, pool, list_pos,
           length_set, taskq, in_work, outq, key_out>>

uvars == <<uri, parsed, opened>>

rvars == <<obj, keys, passes, rcalls, read_since, last_read, rexc>>

vars == <<wvars, lvars, bvars, uvars, rvars>>

\* a step of one component leaves the other components alone
WriteOnly == UNCHANGED <<lvars, bvars, uvars, rvars>>
LinesOnly == UNCHANGED <<wvars, bvars, uvars, rvars>>
BucketOnly == UNCHANGED <<wvars, lvars, uvars, rvars>>
UriOnly == UNCHANGED <<wvars, lvars, bvars, rvars>>
ReadOnly == UNCHANGED <<wvars, bvars, uvars>>

----------------------------------------------------------------------------
(* Bounds *)

MaxT == 2          \* thresholds min_part_size range over 1..MaxT
MaxCalls == 3      \* write() and close() calls inside one with block
MaxText == 1       \* code points per text input
MaxChunks == 3     \* chunks a key delivers
MaxChunkLen == 2   \* bytes per chunk
MaxKeys == 3       \* keys in the bucket's listing
MaxLimit == 2      \* key_limit ranges over None and 0..MaxLimit
MaxWorkers == 2    \* workers ranges over 1..MaxWorkers
MaxObj == 3        \* bytes of the object an S3OpenRead reads
MaxPasses == 2     \* calls of S3OpenRead.__iter__
MaxReaderCalls == 2   \* calls of S3OpenRead.read and S3OpenRead.seek
MaxRead == 1       \* the size argument of read ranges up to MaxRead
BufferSize == 2    \* bytes a boto key delivers per chunk (boto's Key.BufferSize)
MaxOpenRest == 2   \* characters after the scheme prefix of a uri given to smart_open
MaxRest == 6       \* characters after the scheme prefix of a generated uri

----------------------------------------------------------------------------
(* Byte strings *)

RECURSIVE Join(_)
\* b"".join(seqs)
Join(seqs) == IF seqs = <<>> THEN <<>> ELSE Head(seqs) \o Join(Tail(seqs))

\* one code point encoded as utf8 (code points below 2048)
Utf8Char(cp) == IF cp < 128 THEN <<cp>> ELSE <<192 + (cp \div 64), 128 + (cp % 64)>>

RECURSIVE encode_utf8(_)
\* b.encode('utf8')
encode_utf8(s) == IF s = <<>> THEN <<>> ELSE Utf8Char(Head(s)) \o encode_utf8(Tail(s))

\* the code points text inputs are made of: 'A' (one byte in utf8) and e-acute
\* (two bytes), alternating with the position in the stream
CodePointAt(k) == IF k % 2 = 0 THEN 65 ELSE 233

\* The lengths of the byte strings written: up to the largest threshold, and
\* three times the session's threshold
WriteLens == (0..MaxT) \cup {3 * min_part_size}

\* The values a caller passes to write(): a byte string whose bytes are numbered
\* by their position in the stream written so far (the writer never looks at
\* the value of a byte), a text (six.text_type), or a value that is neither.
WriteInputs ==
    {[kind |-> "bytes", val |-> [i \in 1..n |-> (Len(written) + i) % 256]] : n \in WriteLens}
    \cup {[kind |-> "text", val |-> [i \in 1..n |-> CodePointAt(Len(written) + i)]] :
              n \in 0..MaxText}
    \cup {[kind |-> "other", val |-> <<>>]}

----------------------------------------------------------------------------
(* The backend's requests *)

upload_part_from_file(buff, part_num, ok, by) ==
    [req |-> "upload_part", num |-> part_num, data |-> buff, ok |-> ok, by |-> by]

complete_upload(ok, by) ==
    [req |-> "complete_upload", num |-> 0, data |-> <<>>, ok |-> ok, by |-> by]

cancel_multipart_upload(ok, by) ==
    [req |-> "cancel_multipart_upload", num |-> 0, data |-> <<>>, ok |-> ok, by |-> by]

----------------------------------------------------------------------------
(* S3OpenWrite *)

\* the fields after __init__, for a threshold T
S3OpenWrite_init(T) ==
    /\ min_part_size = T
    /\ lines = <<>>
    /\ total_size = 0
    /\ chunk_bytes = 0
    /\ parts = 0
    /\ requests = <<>>
    /\ wpc = "scope"
    /\ exc = "none"
    /\ raised = "none"
    /\ written = <<>>
    /\ nwrites = 0
    /\ closeLog = <<>>
    /\ exitLog = <<>>

\* the number the next part is uploaded under (part numbers are 1-based)
next_part_num_zero_based == parts

next_part_num == parts + 1

\* self.lines, self.chunk_bytes after a part was uploaded by write()
flushed_buffer_kept(ls, cb) == [lines |-> ls, chunk_bytes |-> cb]

flushed_buffer(ls, cb) == [lines |-> <<>>, chunk_bytes |-> 0]

\* a value that passes the two isinstance tests of write()
is_text_or_binary_any(b) == TRUE

is_text_or_binary(b) == b.kind \in {"text", "bytes"}

\* the buffer holds enough for a part
reached_min_part_size_strictly(cb) == cb > min_part_size

reached_min_part_size(cb) == cb >= min_part_size

\* write(b); okU is whether the backend accepts the part, when one is uploaded
S3OpenWrite_write(b, okU) ==
    /\ wpc = "scope" /\ exc = "none"
    /\ nwrites + Len(closeLog) < MaxCalls
    /\ nwrites' = nwrites + 1
    /\ IF ~is_text_or_binary(b)
       THEN /\ exc' = "TypeError"
            /\ UNCHANGED <<lines, chunk_bytes, total_size, parts, requests, written>>
       ELSE LET bb == IF b.kind = "text" THEN encode_utf8(b.val) ELSE b.val
                ls == Append(lines, bb)
                cb == chunk_bytes + Len(bb)
            IN /\ total_size' = total_size + Len(bb)
               /\ written' = written \o bb
               /\ IF reached_min_part_size(cb)
                  THEN /\ requests' = Append(requests,
                                upload_part_from_file(Join(ls), next_part_num, okU, "write"))
                       /\ IF okU
                          THEN /\ parts' = parts + 1
                               /\ lines' = flushed_buffer(ls, cb).lines
                               /\ chunk_bytes' = flushed_buffer(ls, cb).chunk_bytes
                               /\ exc' = "none"
                          ELSE /\ parts' = parts
                               /\ lines' = ls
                               /\ chunk_bytes' = cb
                               /\ exc' = "upload_error"
                  ELSE /\ lines' = ls
                       /\ chunk_bytes' = cb
                       /\ exc' = "none"
                       /\ UNCHANGED <<parts, requests>>
    /\ UNCHANGED <<min_part_size, wpc, raised, closeLog, exitLog>>
    /\ WriteOnly

\* a close() that finalizes whatever was written
S3OpenWrite_close_always_completes(okU, okF) ==
    LET buff == Join(lines)
        up == IF buff # <<>>
              THEN <<upload_part_from_file(buff, next_part_num, okU, "close")>>
              ELSE <<>>
    IN IF buff # <<>> /\ ~okU
       THEN [reqs |-> up, err |-> "upload_error"]
       ELSE [reqs |-> Append(up, complete_upload(okF, "close")),
             err |-> IF okF THEN "none" ELSE "complete_error"]

\* close(): the requests it sends and the error it raises; okU is whether the
\* backend accepts the last part, okF whether it accepts the complete or cancel
S3OpenWrite_close(okU, okF) ==
    LET buff == Join(lines)
        up == IF buff # <<>>
              THEN <<upload_part_from_file(buff, next_part_num, okU, "close")>>
              ELSE <<>>
    IN IF buff # <<>> /\ ~okU
       THEN [reqs |-> up, err |-> "upload_error"]
       ELSE IF total_size # 0
            THEN [reqs |-> Append(up, complete_upload(okF, "close")),
                  err |-> IF okF THEN "none" ELSE "complete_error"]
            ELSE [reqs |-> Append(up, cancel_multipart_upload(okF, "close")),
                  err |-> IF okF THEN "none" ELSE "cancel_error"]

\* what the history keeps of one call of close(): the bytes and the write()
\* calls before it, what it sent and what it raised
CloseRecord(c) == [wlen |-> Len(written), writes |-> nwrites, reqs |-> c.reqs,
                   err |-> c.err]

\* the caller calls close() inside the with block
CallClose ==
    /\ wpc = "scope" /\ exc = "none"
    /\ nwrites + Len(closeLog) < MaxCalls
    /\ \E okU, okF \in BOOLEAN :
         LET c == S3OpenWrite_close(okU, okF)
         IN /\ requests' = requests \o c.reqs
            /\ exc' = c.err
            /\ closeLog' = Append(closeLog, CloseRecord(c))
    /\ UNCHANGED <<min_part_size, lines, total_size, chunk_bytes, parts, wpc, raised,
                   written, nwrites, exitLog>>
    /\ WriteOnly

\* a _termination_error() that only logs
S3OpenWrite_termination_error_only_logs(okC) == [reqs |-> <<>>, err |-> "none"]

\* _termination_error(): the requests it sends and the error it raises
S3OpenWrite_termination_error(okC) ==
    [reqs |-> <<cancel_multipart_upload(okC, "_termination_error")>>,
     err |-> IF okC THEN "none" ELSE "termination_cancel_error"]

\* __exit__(type, value, traceback): type is the exception propagating in the block
S3OpenWrite_exit(okU, okF, okC) ==
    /\ wpc = "scope"
    /\ wpc' = "exited"
    /\ exc' = "none"
    /\ IF exc # "none"
       THEN LET t == S3OpenWrite_termination_error(okC)
            IN /\ requests' = requests \o t.reqs
               /\ raised' = IF t.err # "none" THEN t.err ELSE exc
               /\ exitLog' = <<[type |-> exc, trigger |-> exc, reqs |-> t.reqs,
                               termErr |-> t.err]>>
               /\ UNCHANGED closeLog
       ELSE LET c == S3OpenWrite_close(okU, okF)
            IN /\ closeLog' = Append(closeLog, CloseRecord(c))
               /\ IF c.err = "none"
                  THEN /\ requests' = requests \o c.reqs
                       /\ raised' = "none"
                       /\ exitLog' = <<[type |-> "none", trigger |-> "none",
                                       reqs |-> c.reqs, termErr |-> "none"]>>
                  ELSE LET t == S3OpenWrite_termination_error(okC)
                       IN /\ requests' = requests \o c.reqs \o t.reqs
                          /\ raised' = IF t.err # "none" THEN t.err ELSE c.err
                          /\ exitLog' = <<[type |-> "none", trigger |-> c.err,
                                          reqs |-> c.reqs \o t.reqs, termErr |-> t.err]>>
    /\ UNCHANGED <<min_part_size, lines, total_size, chunk_bytes, parts, written, nwrites>>
    /\ WriteOnly

\* the caller's code inside the with block raises
RaiseInScope ==
    /\ wpc = "scope" /\ exc = "none"
    /\ exc' = "user_error"
    /\ UNCHANGED <<min_part_size, lines, total_size, chunk_bytes, parts, requests, wpc,
                   raised, written, nwrites, closeLog, exitLog>>
    /\ WriteOnly

\* the caller's code inside the with block catches the exception of a call
CatchInScope ==
    /\ wpc = "scope" /\ exc \notin {"none", "user_error"}
    /\ exc' = "none"
    /\ UNCHANGED <<min_part_size, lines, total_size, chunk_bytes, parts, requests, wpc,
                   raised, written, nwrites, closeLog, exitLog>>
    /\ WriteOnly

CallWrite == \E b \in WriteInputs, okU \in BOOLEAN : S3OpenWrite_write(b, okU)

CallExit == \E okU, okF, okC \in BOOLEAN : S3OpenWrite_exit(okU, okF, okC)

WriteNext ==
    \/ CallWrite
    \/ CallClose
    \/ CallExit
    \/ RaiseInScope
    \/ CatchInScope

----------------------------------------------------------------------------
(* s3_iter_lines *)

NL == 10    \* b'\n'

\* the bytes the chunks are made of: a newline and a letter
LineBytes == {NL, 97}

\* the chunks a key may deliver: byte strings of up to MaxChunkLen bytes
Chunks == UNION {[1..k -> LineBytes] : k \in 0..MaxChunkLen}

\* buf.find(sub, st): the lowest offset >= st of the byte sub in b, or -1
find(b, sub, st) ==
    LET hits == {i \in st..(Len(b) - 1) : b[i + 1] = sub}
    IN IF hits = {} THEN -1 ELSE CHOOSE i \in hits : \A j \in hits : i <= j

\* b[from : to], for 0 <= from <= to <= len(b)
Slice(b, from, to) == SubSeq(b, from + 1, to)

WriteIdle ==
    /\ min_part_size = 1
    /\ lines = <<>>
    /\ total_size = 0
    /\ chunk_bytes = 0
    /\ parts = 0
    /\ requests = <<>>
    /\ wpc = "idle"
    /\ exc = "none"
    /\ raised = "none"
    /\ written = <<>>
    /\ nwrites = 0
    /\ closeLog = <<>>
    /\ exitLog = <<>>

LinesIdle ==
    /\ lpc = "idle"
    /\ buf = <<>>
    /\ start = 0
    /\ line_out = <<>>
    /\ key_read = <<>>

s3_iter_lines_init ==
    /\ lpc = "start"
    /\ buf = <<>>
    /\ start = 0
    /\ line_out = <<>>
    /\ key_read = <<>>

\* the first next(): the check of the argument, then buf = b''
s3_iter_lines_start(is_key) ==
    /\ lpc = "start"
    /\ lpc' = IF is_key THEN "for" ELSE "TypeError"
    /\ buf' = <<>>
    /\ UNCHANGED <<start, line_out, key_read>>
    /\ LinesOnly

\* the body of the for loop up to the while: buf += chunk; start = 0
for_chunk(chunk) ==
    /\ lpc = "for"
    /\ key_read' = Append(key_read, chunk)
    /\ buf' = buf \o chunk
    /\ start' = 0
    /\ lpc' = "while"
    /\ UNCHANGED line_out

\* the end of the for loop
for_exhausted ==
    /\ lpc = "for"
    /\ lpc' = "last"
    /\ UNCHANGED <<buf, start, line_out, key_read>>

\* for chunk in key: the key delivers a chunk; buf += chunk; start = 0
s3_iter_lines_chunk(chunk) ==
    /\ Len(key_read) < MaxChunks
    /\ for_chunk(chunk)
    /\ LinesOnly

\* for chunk in key: the key is exhausted
s3_iter_lines_exhausted ==
    /\ for_exhausted
    /\ LinesOnly

\* the line a pass of the while loop yields, given end
yielded_line_without_newline(end) == Slice(buf, start, end - 1)

yielded_line(end) == Slice(buf, start, end)

\* what the while loop keeps of buf when it finds no newline
compacted_from_zero == buf

compacted == Slice(buf, start, Len(buf))

\* one pass of the while loop
s3_iter_lines_scan ==
    /\ lpc = "while"
    /\ LET end == find(buf, NL, start) + 1
       IN IF end # 0
          THEN /\ line_out' = Append(line_out, yielded_line(end))
               /\ start' = end
               /\ UNCHANGED <<buf, lpc>>
          ELSE /\ buf' = compacted
               /\ lpc' = "for"
               /\ UNCHANGED <<start, line_out>>
    /\ UNCHANGED key_read
    /\ LinesOnly

\* after the for loop: the last line
s3_iter_lines_last ==
    /\ lpc = "last"
    /\ line_out' = IF buf # <<>> THEN Append(line_out, buf) ELSE line_out
    /\ lpc' = "done"
    /\ UNCHANGED <<buf, start, key_read>>
    /\ LinesOnly

LinesNext ==
    \/ \E is_key \in BOOLEAN : s3_iter_lines_start(is_key)
    \/ \E chunk \in Chunks : s3_iter_lines_chunk(chunk)
    \/ s3_iter_lines_exhausted
    \/ s3_iter_lines_scan
    \/ s3_iter_lines_last

----------------------------------------------------------------------------
(* s3_iter_bucket *)

\* key_limit is None, or Some(k) for a number k
None == <<>>
Some(k) == <<k>>

BucketIdle ==
    /\ bucket_list = <<>>
    /\ accept_key = {}
    /\ key_limit = None
    /\ workers = 1
    /\ gpc = "idle"
    /\ key_no = -1
    /\ pool = "none"
    /\ list_pos = 0
    /\ length_set = FALSE
    /\ taskq = <<>>
    /\ in_work = {}
    /\ outq = <<>>
    /\ key_out = <<>>

\* The listing holds the keys named 1..n, each name once; a task is the name
\* of the key it fetches.
s3_iter_bucket_init ==
    /\ bucket_list \in {[i \in 1..n |-> i] : n \in 0..MaxKeys}
    /\ accept_key \in SUBSET (1..Len(bucket_list))
    /\ key_limit \in {None} \cup {Some(k) : k \in 0..MaxLimit}
    /\ workers \in 1..MaxWorkers
    /\ gpc = "start"
    /\ key_no = -1
    /\ pool = "none"
    /\ list_pos = 0
    /\ length_set = FALSE
    /\ taskq = <<>>
    /\ in_work = {}
    /\ outq = <<>>
    /\ key_out = <<>>

\* the first next(): the body runs up to the for loop's first wait for a result;
\* the pool and the result iterator are created
s3_iter_bucket_start ==
    /\ gpc = "start"
    /\ gpc' = "next"
    /\ key_no' = -1
    /\ pool' = "running"
    /\ UNCHANGED <<bucket_list, accept_key, key_limit, workers, list_pos, length_set,
                   taskq, in_work, outq, key_out>>
    /\ BucketOnly

\* whether the generator expression `keys` lets a key through
keys_filter_accepts_all(name) == TRUE

keys_filter(name) == name \in accept_key

\* the pool's task thread draws the next key from `keys` and queues a task for
\* it when the filter lets it through
pool_task_thread_put ==
    /\ pool = "running"
    /\ list_pos < Len(bucket_list)
    /\ list_pos' = list_pos + 1
    /\ taskq' = IF keys_filter(bucket_list[list_pos + 1])
                THEN Append(taskq, bucket_list[list_pos + 1])
                ELSE taskq
    /\ UNCHANGED <<bucket_list, accept_key, key_limit, workers, gpc, key_no, pool,
                   length_set, in_work, outq, key_out>>
    /\ BucketOnly

\* `keys` is exhausted: the task thread tells the result iterator its length
pool_task_thread_done ==
    /\ pool = "running"
    /\ list_pos = Len(bucket_list)
    /\ ~length_set
    /\ length_set' = TRUE
    /\ UNCHANGED <<bucket_list, accept_key, key_limit, workers, gpc, key_no, pool,
                   list_pos, taskq, in_work, outq, key_out>>
    /\ BucketOnly

\* a free worker takes the first waiting task
pool_worker_take ==
    /\ pool = "running"
    /\ taskq # <<>>
    /\ Cardinality(in_work) < workers
    /\ in_work' = in_work \cup {Head(taskq)}
    /\ taskq' = Tail(taskq)
    /\ UNCHANGED <<bucket_list, accept_key, key_limit, workers, gpc, key_no, pool,
                   list_pos, length_set, outq, key_out>>
    /\ BucketOnly

\* s3_iter_bucket_process_key(key) returns in a worker, or get_contents_as_string
\* raises in it (ok = FALSE); the result joins the results in completion order
s3_iter_bucket_process_key(key, ok) ==
    /\ pool = "running"
    /\ key \in in_work
    /\ in_work' = in_work \ {key}
    /\ outq' = Append(outq, [key |-> key, ok |-> ok])
    /\ UNCHANGED <<bucket_list, accept_key, key_limit, workers, gpc, key_no, pool,
                   list_pos, length_set, taskq, key_out>>
    /\ BucketOnly

\* the for loop gets the next result: it yields the key's name, or the task's
\* exception leaves the generator
s3_iter_bucket_result ==
    /\ gpc = "next"
    /\ outq # <<>>
    /\ outq' = Tail(outq)
    /\ IF Head(outq).ok
       THEN /\ key_no' = key_no + 1
            /\ key_out' = Append(key_out, Head(outq).key)
            /\ gpc' = "yield"
       ELSE /\ gpc' = "raised"
            /\ UNCHANGED <<key_no, key_out>>
    /\ UNCHANGED <<bucket_list, accept_key, key_limit, workers, pool, list_pos,
                   length_set, taskq, in_work>>
    /\ BucketOnly

\* pool.terminate(): the workers are stopped, the waiting tasks dropped
pool_terminate ==
    /\ pool' = "terminated"
    /\ taskq' = <<>>
    /\ in_work' = {}

\* the for loop's test after a yield: whether the loop breaks
limit_reached == key_limit # None /\ key_no + 1 >= key_limit[1]

\* the consumer asks for the next result after a yield: the loop's body goes
\* on; the loop breaks at the limit, and then the pool is terminated
s3_iter_bucket_resume ==
    /\ gpc = "yield"
    /\ IF limit_reached
       THEN /\ pool_terminate
            /\ gpc' = "done"
       ELSE /\ gpc' = "next"
            /\ UNCHANGED <<pool, taskq, in_work>>
    /\ UNCHANGED <<bucket_list, accept_key, key_limit, workers, key_no, list_pos,
                   length_set, outq, key_out>>
    /\ BucketOnly

\* the result iterator is exhausted: every task's result was taken; the loop
\* ends and the pool is terminated
s3_iter_bucket_exhausted ==
    /\ gpc = "next"
    /\ outq = <<>>
    /\ length_set /\ taskq = <<>> /\ in_work = {}
    /\ pool_terminate
    /\ gpc' = "done"
    /\ UNCHANGED <<bucket_list, accept_key, key_limit, workers, key_no, list_pos,
                   length_set, outq, key_out>>
    /\ BucketOnly

\* the consumer abandons the generator, suspended at its yield: GeneratorExit is
\* raised at the yield and nothing after it runs
s3_iter_bucket_abandon ==
    /\ gpc = "yield"
    /\ gpc' = "closed"
    /\ UNCHANGED <<bucket_list, accept_key, key_limit, workers, key_no, pool, list_pos,
                   length_set, taskq, in_work, outq, key_out>>
    /\ BucketOnly

pool_worker_done ==
    \E key \in in_work, ok \in BOOLEAN : s3_iter_bucket_process_key(key, ok)

BucketNext ==
    \/ s3_iter_bucket_start
    \/ pool_task_thread_put
    \/ pool_task_thread_done
    \/ pool_worker_take
    \/ pool_worker_done
    \/ s3_iter_bucket_result
    \/ s3_iter_bucket_resume
    \/ s3_iter_bucket_exhausted
    \/ s3_iter_bucket_abandon

----------------------------------------------------------------------------
(* S3OpenRead *)

\* the objects read: byte strings of up to MaxObj bytes
Objects == UNION {[1..k -> LineBytes] : k \in 0..MaxObj}

ReadIdle ==
    /\ obj = <<>>
    /\ keys = [read |-> None, iter |-> None]
    /\ passes = 0
    /\ rcalls = 0
    /\ read_since = 0
    /\ last_read = None
    /\ rexc = "none"

\* S3OpenRead(parsed_uri) on an existing key: read_key has no open response
S3OpenRead_init ==
    /\ obj \in Objects
    /\ keys = [read |-> None, iter |-> None]
    /\ passes = 0
    /\ rcalls = 0
    /\ read_since = 0
    /\ last_read = None
    /\ rexc = "none"

\* the key line iteration reads from: self.read_key
iter_key_is_read_key == "read"

\* the key line iteration reads from: the one __iter__ has looked up
iter_key == "iter"

\* the offset of key k: that of its open response, or 0 when open_read() has
\* to open one
offset_of(k) == IF keys[k] = None THEN 0 ELSE keys[k][1]

\* resp.read(n) at offset pos; n = 0 stands for resp.read()
resp_read(pos, n) ==
    IF n = 0 \/ pos + n > Len(obj)
    THEN Slice(obj, pos, Len(obj))
    ELSE Slice(obj, pos, pos + n)

\* boto's Key.read(size) and Key.next(): the key after data was read from it
\* at offset pos; an empty read closes the key
key_after(pos, data) == IF data = <<>> THEN None ELSE Some(pos + Len(data))

\* __iter__(): a new key, and a new generator s3_iter_lines(key) not yet started
S3OpenRead_iter ==
    /\ passes < MaxPasses
    /\ passes' = passes + 1
    /\ keys' = [keys EXCEPT !.iter = None]
    /\ lpc' = "start"
    /\ buf' = <<>>
    /\ start' = 0
    /\ line_out' = <<>>
    /\ key_read' = <<>>
    /\ UNCHANGED <<obj, rcalls, read_since, last_read, rexc>>
    /\ ReadOnly

\* next() of the generator reaches its first statements
S3OpenRead_iter_start ==
    /\ s3_iter_lines_start(TRUE)

\* for chunk in key: Key.next() returns the next BufferSize bytes
S3OpenRead_iter_chunk ==
    /\ resp_read(offset_of(iter_key), BufferSize) # <<>>
    /\ for_chunk(resp_read(offset_of(iter_key), BufferSize))
    /\ keys' = [keys EXCEPT ![iter_key] =
                    key_after(offset_of(iter_key), resp_read(offset_of(iter_key), BufferSize))]
    /\ UNCHANGED <<obj, passes, rcalls, read_since, last_read, rexc>>
    /\ ReadOnly

\* for chunk in key: Key.next() reads nothing, closes the key and stops
S3OpenRead_iter_exhausted ==
    /\ resp_read(offset_of(iter_key), BufferSize) = <<>>
    /\ for_exhausted
    /\ keys' = [keys EXCEPT ![iter_key] = None]
    /\ UNCHANGED <<obj, passes, rcalls, read_since, last_read, rexc>>
    /\ ReadOnly

\* the size arguments of read(): None, a negative number, 0, 1..MaxRead
Sizes == {None} \cup {Some(n) : n \in (-1)..MaxRead}

\* `if not size or size < 0: size = 0`
normalized_size(size) == IF size = None \/ size[1] = 0 \/ size[1] < 0 THEN 0 ELSE size[1]

\* read(size)
S3OpenRead_read(size) ==
    /\ rcalls < MaxReaderCalls
    /\ rcalls' = rcalls + 1
    /\ LET pos == offset_of("read")
           data == resp_read(pos, normalized_size(size))
       IN /\ keys' = [keys EXCEPT !.read = key_after(pos, data)]
          /\ last_read' = Some([size |-> size, data |-> data, since |-> read_since,
                                during |-> lpc])
          /\ read_since' = IF data = <<>> THEN 0 ELSE read_since + Len(data)
    /\ rexc' = "none"
    /\ UNCHANGED <<obj, passes, lvars>>
    /\ ReadOnly

\* seek(offset, whence)
S3OpenRead_seek(offset, whence) ==
    /\ rcalls < MaxReaderCalls
    /\ rcalls' = rcalls + 1
    /\ IF whence # 0 \/ offset # 0
       THEN /\ rexc' = "NotImplementedError"
            /\ UNCHANGED <<keys, read_since>>
       ELSE /\ rexc' = "none"
            /\ keys' = [keys EXCEPT !.read = None]
            /\ read_since' = 0
    /\ UNCHANGED <<obj, passes, last_read, lvars>>
    /\ ReadOnly

ReadNext ==
    \/ S3OpenRead_iter
    \/ S3OpenRead_iter_start
    \/ S3OpenRead_iter_chunk
    \/ S3OpenRead_iter_exhausted
    \/ s3_iter_lines_scan
    \/ s3_iter_lines_last
    \/ \E size \in Sizes : S3OpenRead_read(size)
    \/ \E offset \in 0..1, whence \in 0..1 : S3OpenRead_seek(offset, whence)

----------------------------------------------------------------------------
(* ParseUri *)

\* Strings are sequences of one-character strings.
Letters == {"a", "b", "c", "d", "e", "f", "g", "h", "i", "j", "k", "l", "m", "n", "o",
            "p", "q", "r", "s", "t", "u", "v", "w", "x", "y", "z"}
Digits == {"0", "1", "2", "3", "4", "5", "6", "7", "8", "9"}

\* urlsplit's scheme_chars (lower case)
scheme_chars == Letters \cup Digits \cup {"+", "-", "."}

\* s.find(c) + 1: the place of the first character of s that is in cs, or 0
FirstOf(s, cs) ==
    LET hits == {i \in 1..Len(s) : s[i] \in cs}
    IN IF hits = {} THEN 0 ELSE CHOOSE i \in hits : \A j \in hits : i <= j

\* sub in s
Contains(s, sub) ==
    \E i \in 0..(Len(s) - Len(sub)) : SubSeq(s, i + 1, i + Len(sub)) = sub

CountOf(s, c) == Cardinality({i \in 1..Len(s) : s[i] = c})

RECURSIVE split(_, _)
\* s.split(sep), for a separator of one character
split(s, sep) ==
    LET i == FirstOf(s, {sep})
    IN IF i = 0 THEN <<s>>
       ELSE <<SubSeq(s, 1, i - 1)>> \o split(SubSeq(s, i + 1, Len(s)), sep)

\* s.split(sep, 1)
split_once(s, sep) ==
    LET i == FirstOf(s, {sep})
    IN IF i = 0 THEN <<s>>
       ELSE <<SubSeq(s, 1, i - 1), SubSeq(s, i + 1, Len(s))>>

\* path without its query and fragment: cut at the first "?" or "#", at q
cut_at(path, q) == IF q = 0 THEN path ELSE SubSeq(path, 1, q - 1)

\* urlsplit, after "//": the netloc ends at j, the first of "/", "?", "#"
split_netloc(scheme, after, j) ==
    [scheme |-> scheme,
     netloc |-> IF j = 0 THEN after ELSE SubSeq(after, 1, j - 1),
     path |-> IF j = 0 THEN <<>>
              ELSE cut_at(SubSeq(after, j, Len(after)),
                          FirstOf(SubSeq(after, j, Len(after)), {"?", "#"}))]

\* urlsplit, after the scheme
split_rest(scheme, rest) ==
    IF Len(rest) >= 2 /\ rest[1] = "/" /\ rest[2] = "/"
    THEN split_netloc(scheme, SubSeq(rest, 3, Len(rest)),
                      FirstOf(SubSeq(rest, 3, Len(rest)), {"/", "?", "#"}))
    ELSE [scheme |-> scheme, netloc |-> <<>>,
          path |-> cut_at(rest, FirstOf(rest, {"?", "#"}))]

\* url[:i] is a scheme: not empty, made of scheme_chars, and what follows the
\* colon at i is not a port number
is_scheme(url, i) ==
    /\ i > 1
    /\ \A k \in 1..(i - 1) : url[k] \in scheme_chars
    /\ \/ i = Len(url)
       \/ \E k \in (i + 1)..Len(url) : url[k] \notin Digits

\* urlsplit, i being the place of the first colon
split_scheme(url, i) ==
    IF is_scheme(url, i)
    THEN split_rest(SubSeq(url, 1, i - 1), SubSeq(url, i + 1, Len(url)))
    ELSE split_rest(<<>>, url)

\* urlsplit(url): the scheme, the netloc and the path (query and fragment are
\* cut off the path)
urlsplit(url) == split_scheme(url, FirstOf(url, {":"}))

S3 == <<"s", "3">>
S3N == <<"s", "3", "n">>
HDFS == <<"h", "d", "f", "s">>
FILE == <<"f", "i", "l", "e">>

\* what ParseUri leaves when it raises
Raised(scheme, err) ==
    [err |-> err, scheme |-> scheme, uri_path |-> None, bucket_id |-> None,
     key_id |-> None, access_id |-> None, access_secret |-> None]

\* self.uri_path of an hdfs uri
hdfs_uri_path_stripped(p) ==
    IF p.netloc \o p.path # <<>> /\ (p.netloc \o p.path)[1] = "/"
    THEN Tail(p.netloc \o p.path)
    ELSE p.netloc \o p.path

hdfs_uri_path(p) == p.netloc \o p.path

\* the bucket and the key of "bucket/key"
split_bucket_key_at_every_slash(s) == split(s, "/")

split_bucket_key(s) == split_once(s, "/")

\* the hdfs and file branches: the path must not be empty
ParseUri_path(scheme, uri_path) ==
    IF uri_path = <<>>
    THEN Raised(scheme, "RuntimeError")
    ELSE [Raised(scheme, "none") EXCEPT !.uri_path = Some(uri_path)]

\* the s3 branch, no credentials: bk is the bucket and key, split
ParseUri_s3_plain(scheme, bk) ==
    IF Len(bk) # 2
    THEN Raised(scheme, "ValueError")   \* the unpacking of line 152
    ELSE [Raised(scheme, "none") EXCEPT !.bucket_id = Some(bk[1]), !.key_id = Some(bk[2])]

\* the s3 branch, credentials acc
ParseUri_s3_creds(scheme, acc, bk) ==
    IF Len(bk) # 2
    THEN Raised(scheme, "ValueError")   \* the unpacking of line 161
    ELSE [Raised(scheme, "none") EXCEPT !.bucket_id = Some(bk[1]),
                                        !.key_id = Some(bk[2]),
                                        !.access_id = Some(acc[1]),
                                        !.access_secret = Some(acc[2])]

\* the s3 branch: bucket_id is (netloc + path).split('@')
ParseUri_s3(scheme, bucket_id) ==
    IF Len(bucket_id) = 1
    THEN ParseUri_s3_plain(scheme, split_bucket_key(bucket_id[1]))
    ELSE IF Len(bucket_id) = 2 /\ Len(split(bucket_id[1], ":")) = 2
    THEN ParseUri_s3_creds(scheme, split(bucket_id[1], ":"), split_bucket_key(bucket_id[2]))
    ELSE Raised(scheme, "RuntimeError")

\* the branches on the scheme
ParseUri_scheme(scheme, p) ==
    IF scheme = HDFS THEN ParseUri_path(scheme, hdfs_uri_path(p))
    ELSE IF scheme \in {S3, S3N} THEN ParseUri_s3(scheme, split(p.netloc \o p.path, "@"))
    ELSE IF scheme = FILE THEN ParseUri_path(scheme, p.netloc \o p.path)
    ELSE Raised(scheme, "NotImplementedError")

\* self.scheme = parsed_uri.scheme if parsed_uri.scheme else default_scheme
ParseUri_split(p, default_scheme) ==
    ParseUri_scheme(IF p.scheme # <<>> THEN p.scheme ELSE default_scheme, p)

\* on Windows a uri without "://" is a local path
with_file_scheme(u, os_name) ==
    IF os_name = "nt" /\ ~Contains(u, <<":", "/", "/">>)
    THEN <<"f", "i", "l", "e", ":", "/", "/">> \o u
    ELSE u

\* ParseUri(uri, default_scheme) on a platform whose os.name is os_name: the
\* fields of the object, or the exception raised (err)
ParseUri(u, default_scheme, os_name) ==
    ParseUri_split(urlsplit(with_file_scheme(u, os_name)), default_scheme)

\* the scheme prefixes of the generated uris: the four schemes, and none
SchemePrefixes == {S3 \o <<":", "/", "/">>, S3N \o <<":", "/", "/">>, HDFS \o <<":", "/", "/">>, FILE \o <<":", "/", "/">>, <<>>}

\* the characters that follow the prefix: a letter and the three delimiters
UriChars == {"a", "/", "@", ":"}

\* the uris of the documentation
S3CredExample ==
    <<"s", "3", ":", "/", "/", "i", "d", ":", "s", "e", "c", "r", "e", "t", "@", "m", "y", "b", "u", "c", "k", "e", "t", "/", "p", "a", "t", "h", "/", "t", "o", "/", "k", "e", "y">>
S3PlainExample ==
    <<"s", "3", ":", "/", "/", "m", "y", "b", "u", "c", "k", "e", "t", "/", "p", "a", "t", "h", "/", "t", "o", "/", "k", "e", "y">>
S3TwoAtExample == <<"s", "3", ":", "/", "/", "a", "@", "b", "@", "c", "/", "d">>
HdfsExample ==
    <<"h", "d", "f", "s", ":", "/", "/", "/", "u", "s", "e", "r", "/", "x", "/", "f", "i", "l", "e">>
LocalExample ==
    <<".", "/", "l", "o", "c", "a", "l", "/", "p", "a", "t", "h", "/", "f", "i", "l", "e", ".", "g", "z">>

ExampleUris == {S3CredExample, S3PlainExample, S3TwoAtExample, HdfsExample, LocalExample}

\* the uris parsed: a prefix and up to MaxRest characters, and the examples
Uris ==
    {pre \o rest : pre \in SchemePrefixes,
                   rest \in UNION {[1..k -> UriChars] : k \in 0..MaxRest}}
    \cup ExampleUris

UriIdle ==
    /\ uri = <<>>
    /\ parsed = None
    /\ opened = None

ParseUri_init ==
    /\ uri \in Uris
    /\ parsed = None
    /\ opened = None

\* ParseUri(uri), with the default default_scheme
CallParseUri ==
    /\ parsed = None
    /\ \E os_name \in {"posix", "nt"} : parsed' = Some(ParseUri(uri, FILE, os_name))
    /\ UNCHANGED <<uri, opened>>
    /\ UriOnly

UriNext == CallParseUri

----------------------------------------------------------------------------
(* smart_open *)

\* s.rfind(c) + 1
LastOf(s, c) ==
    LET hits == {i \in 1..Len(s) : s[i] = c}
    IN IF hits = {} THEN 0 ELSE CHOOSE i \in hits : \A j \in hits : i >= j

\* os.path.splitext(fname)[1]: from the last dot of the last path component,
\* leading dots of the component not counted
splitext_ext(fname) ==
    LET sep == LastOf(fname, "/")
        dot == LastOf(fname, ".")
    IN IF dot > sep /\ \E i \in (sep + 1)..(dot - 1) : fname[i] # "."
       THEN SubSeq(fname, dot, Len(fname))
       ELSE <<>>

\* file_smart_open(fname, mode): the class of the object made, with its mode
file_smart_open(fname, mode) ==
    [made |-> IF splitext_ext(fname) = <<".", "b", "z", "2">> THEN "BZ2File"
              ELSE IF splitext_ext(fname) = <<".", "g", "z">> THEN "GzipFile"
              ELSE "file",
     mode |-> mode]

\* the modes smart_open is called with
Modes == {"r", "rb", "w", "wb", "ab"}

\* smart_open returns an object of class made
Returns(parsed_uri, mode, made) ==
    [parsed_uri |-> parsed_uri, mode |-> mode, made |-> made, err |-> "none"]

\* smart_open raises err
Raises(parsed_uri, mode, err) ==
    [parsed_uri |-> parsed_uri, mode |-> mode, made |-> "nothing", err |-> err]

\* smart_open after parsed_uri = ParseUri(uri)
smart_open_routed(parsed_uri, mode) ==
    IF parsed_uri.err # "none" THEN Raises(parsed_uri, mode, parsed_uri.err)
    ELSE IF parsed_uri.scheme = FILE
    THEN Returns(parsed_uri, mode, file_smart_open(parsed_uri.uri_path[1], mode).made)
    ELSE IF mode \in {"r", "rb"}
    THEN IF parsed_uri.scheme \in {S3, S3N} THEN Returns(parsed_uri, mode, "S3OpenRead")
         ELSE IF parsed_uri.scheme = HDFS THEN Returns(parsed_uri, mode, "HdfsOpenRead")
         ELSE Raises(parsed_uri, mode, "NotImplementedError")
    ELSE IF mode \in {"w", "wb"}
    THEN IF parsed_uri.scheme \in {S3, S3N} THEN Returns(parsed_uri, mode, "S3OpenWrite")
         ELSE Raises(parsed_uri, mode, "NotImplementedError")
    ELSE Raises(parsed_uri, mode, "NotImplementedError")

\* smart_open(uri, mode): the ParseUri object, the object returned (made) or
\* the exception raised (err)
smart_open(u, mode, os_name) == smart_open_routed(ParseUri(u, FILE, os_name), mode)

\* the uris opened: a prefix and up to MaxOpenRest characters, and the examples
OpenUris ==
    {pre \o rest : pre \in SchemePrefixes \cup {<<"h", "t", "t", "p", ":", "/", "/">>},
                   rest \in UNION {[1..k -> UriChars] : k \in 0..MaxOpenRest}}
    \cup ExampleUris

smart_open_init ==
    /\ uri \in OpenUris
    /\ parsed = None
    /\ opened = None

Call_smart_open ==
    /\ opened = None
    /\ \E mode \in Modes, os_name \in {"posix", "nt"} :
           opened' = Some(smart_open(uri, mode, os_name))
    /\ UNCHANGED <<uri, parsed>>
    /\ UriOnly

OpenNext == Call_smart_open

----------------------------------------------------------------------------
(* Specification of S3OpenWrite *)

WriteInit ==
    (\E T \in 1..MaxT : S3OpenWrite_init(T)) /\ LinesIdle /\ BucketIdle /\ UriIdle /\ ReadIdle

SpecWrite == WriteInit /\ [][WriteNext]_vars

----------------------------------------------------------------------------
(* Properties of S3OpenWrite *)

IsUpload(r) == r.req = "upload_part"
IsComplete(r) == r.req = "complete_upload"
IsCancel(r) == r.req = "cancel_multipart_upload"

\* how many requests of rs satisfy Test
Count(rs, Test(_)) == Len(SelectSeq(rs, Test))

\* the parts the backend accepted, in the order they were sent
Accepted == SelectSeq(requests, LAMBDA r : IsUpload(r) /\ r.ok)

\* the parts write() sent (the non-final parts) and the parts close() sent
SentBy(who) == SelectSeq(requests, LAMBDA r : IsUpload(r) /\ r.by = who)

DataOf(rs) == Join([i \in 1..Len(rs) |-> rs[i].data])

AllOk == \A i \in 1..Len(requests) : requests[i].ok

\* close() was called once, after every write(), and returned normally
ClosedOnce ==
    /\ Len(closeLog) = 1
    /\ closeLog[1].err = "none"
    /\ closeLog[1].writes = nwrites

\* C1: once a sequence of write() calls was followed by a single close(), the
\* parts the backend accepted carry the numbers 1, 2, ..., n in the order they
\* were sent and their data, concatenated in that order, is what was written;
\* when no request failed these are all the parts that were sent.
C1_PartsInWriteOrder ==
    ClosedOnce =>
        /\ \A i \in 1..Len(Accepted) : Accepted[i].num = i
        /\ DataOf(Accepted) = written
        /\ AllOk => SelectSeq(requests, IsUpload) = Accepted

\* C1's case: three parts, the last one sent by close(), no request failed
C1_Witness ==
    /\ ClosedOnce /\ AllOk
    /\ Len(Accepted) = 3
    /\ Accepted[3].by = "close"
    /\ Len(Accepted[1].data) > 1

\* C2: when the with block is left with an exception, or left normally with
\* close() failing (the last part's upload, or the finalize), __exit__ asks the
\* backend to cancel the upload through _termination_error before an error
\* reaches the caller; when the block is left with an exception __exit__ sends
\* no finalize, and none was ever sent unless the caller called close() itself.
C2_CancelledOnError ==
    (wpc = "exited" /\ exitLog[1].trigger # "none") =>
        LET rs == exitLog[1].reqs
        IN /\ raised # "none"
           /\ rs # <<>>
           /\ IsCancel(rs[Len(rs)]) /\ rs[Len(rs)].by = "_termination_error"
           /\ SubSeq(requests, Len(requests) - Len(rs) + 1, Len(requests)) = rs
           /\ exitLog[1].type # "none" =>
                 /\ Count(rs, IsComplete) = 0
                 /\ closeLog = <<>> => Count(requests, IsComplete) = 0

\* C2's case: a part upload failed in write() and the exception left the block
C2_Witness ==
    /\ wpc = "exited"
    /\ exitLog[1].type = "upload_error"
    /\ raised = "upload_error"

\* C3: a close() called with zero bytes written so far sends one request, the
\* cancel: no part and no finalize; a close() called with more than zero bytes
\* written sends no cancel, and sends the finalize unless the upload of its
\* last part failed.
C3_EmptyIsCancelled ==
    \A k \in 1..Len(closeLog) :
        LET c == closeLog[k]
        IN IF c.wlen = 0
           THEN Len(c.reqs) = 1 /\ IsCancel(c.reqs[1])
           ELSE /\ Count(c.reqs, IsCancel) = 0
                /\ \/ Count(c.reqs, IsComplete) = 1
                   \/ (IsUpload(c.reqs[Len(c.reqs)]) /\ ~c.reqs[Len(c.reqs)].ok)

\* C3's case: write() was called, only with empty input, and close() cancelled
C3_Witness ==
    /\ nwrites = 2 /\ written = <<>> /\ exc = "none"
    /\ Len(closeLog) = 1
    /\ closeLog[1].writes = 2
    /\ closeLog[1].err = "none"

\* C4: the backend is asked to cancel the upload at most once per session
C4_CancelAtMostOnce == Count(requests, IsCancel) <= 1

\* C5: when __exit__ tears the session down because of an error (the exception
\* of the block, or the failure of close()) and the cancel request fails, the
\* error the caller gets is that first error
C5_OriginalErrorReraised ==
    (wpc = "exited" /\ exitLog[1].trigger # "none" /\ exitLog[1].termErr # "none") =>
        raised = exitLog[1].trigger

\* a single write() of 3 * min_part_size bytes, then close(), no request failing
SingleWriteOf3T ==
    /\ nwrites = 1
    /\ Len(written) = 3 * min_part_size
    /\ ClosedOnce /\ AllOk

\* C6 as stated: a single write of 3T bytes followed by close() makes write()
\* send at least two parts
C6_AtLeastTwoNonFinalParts == SingleWriteOf3T => Len(SentBy("write")) >= 2

\* C6 as amended: a single write of 3T bytes followed by close() makes write()
\* send exactly one part, holding the 3T bytes, and close() sends no part
C6_OneNonFinalPart ==
    SingleWriteOf3T =>
        /\ Len(SentBy("write")) = 1
        /\ SentBy("write")[1].data = written
        /\ SentBy("write")[1].num = 1
        /\ SentBy("close") = <<>>

\* C6's case: the threshold is above one byte
C6_Witness == SingleWriteOf3T /\ min_part_size > 1

----------------------------------------------------------------------------
(* Specifications of s3_iter_lines and s3_iter_bucket *)

LinesInit == s3_iter_lines_init /\ WriteIdle /\ BucketIdle /\ UriIdle /\ ReadIdle

SpecLines == LinesInit /\ [][LinesNext]_vars

BucketInit == s3_iter_bucket_init /\ WriteIdle /\ LinesIdle /\ UriIdle /\ ReadIdle

SpecBucket == BucketInit /\ [][BucketNext]_vars

----------------------------------------------------------------------------
(* Properties of s3_iter_lines *)

EndsInNewline(line) == line # <<>> /\ line[Len(line)] = NL

\* C7: every line yielded before the last one yielded ends in a newline, and
\* once the generator is exhausted the lines yielded, concatenated in order,
\* are the concatenation of the chunks the key delivered
C7_LinesRebuildTheObject ==
    /\ \A i \in 1..(Len(line_out) - 1) : EndsInNewline(line_out[i])
    /\ lpc = "done" => Join(line_out) = Join(key_read)

\* C7's case: an empty chunk, a line that spans two chunks, a last line with
\* no newline
C7_Witness ==
    /\ lpc = "done"
    /\ \E i \in 1..Len(key_read) : key_read[i] = <<>>
    /\ Len(line_out) >= 2
    /\ Len(line_out[1]) > Len(key_read[1])
    /\ ~EndsInNewline(line_out[Len(line_out)])

----------------------------------------------------------------------------
(* Properties of s3_iter_bucket *)

\* the listed names the predicate accepts
AcceptedNames == {bucket_list[i] : i \in 1..Len(bucket_list)} \cap accept_key

Yielded == {key_out[i] : i \in 1..Len(key_out)}

\* the names a fetch was scheduled for
Scheduled ==
    {taskq[i] : i \in 1..Len(taskq)} \cup in_work \cup {outq[i].key : i \in 1..Len(outq)}

Min(a, b) == IF a <= b THEN a ELSE b

\* C8: no name the predicate rejects is yielded, nor is a fetch scheduled for
\* it; with key_limit None, once the consumer has drained the generator every
\* accepted name of the listing was yielded exactly once
C8_YieldsTheAcceptedKeys ==
    /\ Yielded \subseteq AcceptedNames
    /\ Scheduled \subseteq AcceptedNames
    /\ (gpc = "done" /\ key_limit = None) =>
          /\ Yielded = AcceptedNames
          /\ Len(key_out) = Cardinality(AcceptedNames)

\* C8's case: three keys, one rejected, yielded out of listing order
C8_Witness ==
    /\ gpc = "done" /\ key_limit = None
    /\ Len(bucket_list) = 3
    /\ Cardinality(AcceptedNames) = 2
    /\ key_out[1] > key_out[2]

\* C9: with key_limit = k >= 0 the drained generator has yielded exactly
\* min(k, number of accepted names) results
C9_YieldsUpToLimit ==
    (gpc = "done" /\ key_limit # None) =>
        Len(key_out) = Min(key_limit[1], Cardinality(AcceptedNames))

\* C10: when the enumeration has ended (the generator is exhausted, broke at
\* the limit, or was abandoned by the consumer) the pool is terminated
C10_PoolTerminatedAtEnd == gpc \in {"done", "closed"} => pool = "terminated"

----------------------------------------------------------------------------
(* Further properties of S3OpenWrite *)

\* C15: a write() of a value that is neither text nor a byte string raises
\* TypeError and leaves lines, chunk_bytes, total_size and parts as they were,
\* and sends no request.
C15_TypeErrorChangesNothing ==
    [][\A b \in WriteInputs : \A okU \in BOOLEAN :
          (b.kind = "other" /\ S3OpenWrite_write(b, okU))
              => /\ exc' = "TypeError"
                 /\ UNCHANGED <<lines, chunk_bytes, total_size, parts, requests>>]_vars

\* a write() raised TypeError on a writer holding pending bytes, after a part
\* had been uploaded
C15_Witness ==
    /\ exc = "TypeError"
    /\ lines # <<>>
    /\ parts = 1
    /\ requests # <<>>

\* a request that ends the upload: an accepted complete_upload, or a cancel
IsTerminal(r) == (IsComplete(r) /\ r.ok) \/ IsCancel(r)

\* C16: once the with block has been left, by any path, the upload is in
\* exactly one terminal state: either a complete_upload succeeded and no
\* cancel was requested, or a cancel was requested and no complete_upload
\* succeeded; complete_upload succeeds at most once and is not requested
\* again after the upload was completed or cancelled.
C16_OneTerminalState ==
    wpc = "exited" =>
        LET completed == Count(requests, LAMBDA r : IsComplete(r) /\ r.ok)
            cancels == Count(requests, IsCancel)
        IN /\ \/ completed >= 1 /\ cancels = 0
              \/ cancels >= 1 /\ completed = 0
           /\ completed <= 1
           /\ \A i, j \in 1..Len(requests) :
                  (i < j /\ IsTerminal(requests[i])) => ~IsComplete(requests[j])

\* close() has returned normally and nothing was written since
JustClosed ==
    /\ closeLog # <<>>
    /\ closeLog[Len(closeLog)].err = "none"
    /\ closeLog[Len(closeLog)].writes = nwrites

\* C19: in every state, after close() too, parts is the number of parts
\* uploaded so far, the last part that close() uploads included, and after
\* close() lines is empty and chunk_bytes is 0.
C19_PartsCountsEveryPart ==
    AllOk =>
        /\ parts = Count(requests, IsUpload)
        /\ JustClosed => (lines = <<>> /\ chunk_bytes = 0)

\* C20: after every write() that returns normally chunk_bytes is less than
\* min_part_size and is the sum of the lengths of the byte strings in lines,
\* and every part that write() has uploaded holds at least min_part_size bytes.
C20_BufferBelowThreshold ==
    [][nwrites' = nwrites + 1 =>
          /\ \A i \in 1..Len(requests') :
                 (IsUpload(requests'[i]) /\ requests'[i].by = "write")
                     => Len(requests'[i].data) >= min_part_size
          /\ exc' = "none" =>
                 /\ chunk_bytes' < min_part_size
                 /\ chunk_bytes' = Len(Join(lines'))]_vars

\* a write() uploaded a part of min_part_size bytes and a later write() left
\* bytes pending; close() then uploaded them as a shorter part
C20_Witness ==
    /\ Len(SentBy("write")) = 1
    /\ Len(SentBy("write")[1].data) = min_part_size
    /\ Len(SentBy("close")) = 1
    /\ Len(SentBy("close")[1].data) < min_part_size
    /\ AllOk

----------------------------------------------------------------------------
(* Further properties of s3_iter_lines *)

RECURSIVE SplitAtNewlines(_)
\* the lines of the byte string b: each one ends after a newline, the last
\* one at the end of b
SplitAtNewlines(b) ==
    IF b = <<>> THEN <<>>
    ELSE LET hits == {i \in 1..Len(b) : b[i] = NL}
             n == IF hits = {} THEN Len(b)
                  ELSE CHOOSE i \in hits : \A j \in hits : i <= j
         IN <<SubSeq(b, 1, n)>> \o SplitAtNewlines(SubSeq(b, n + 1, Len(b)))

\* ls splits b: no line is empty, every line but the last holds one newline,
\* as its last byte, and the last line holds none unless b ends in one
IsLineSplit(ls, b) ==
    /\ Join(ls) = b
    /\ \A i \in 1..Len(ls) :
           /\ ls[i] # <<>>
           /\ \A k \in 1..(Len(ls[i]) - 1) : ls[i][k] # NL
           /\ i < Len(ls) => ls[i][Len(ls[i])] = NL

\* C18: the lines yielded depend on the concatenation B of the chunks only and
\* not on the chunking: they are the split of B in which no line is empty and
\* each line holds one newline, as its last byte, but for the last line when B
\* does not end in a newline; an empty B yields no line.
C18_LinesAreTheSplitOfTheObject ==
    lpc = "done" =>
        /\ line_out = SplitAtNewlines(Join(key_read))
        /\ IsLineSplit(line_out, Join(key_read))
        /\ Join(key_read) = <<>> => line_out = <<>>

\* a finished pass over three chunks with a line longer than any chunk and a
\* last line without a newline
C18_Witness ==
    /\ lpc = "done"
    /\ Len(key_read) = MaxChunks
    /\ Len(line_out) >= 2
    /\ \E i \in 1..Len(line_out) : Len(line_out[i]) > MaxChunkLen
    /\ line_out[Len(line_out)][Len(line_out[Len(line_out)])] # NL

----------------------------------------------------------------------------
(* Properties of S3OpenRead *)

IsPrefixOf(a, b) == Len(a) <= Len(b) /\ SubSeq(b, 1, Len(a)) = a

\* what a read(size) returns on a reader that is never iterated, when the
\* reads since its key was last reopened have returned n bytes
ReadAlone(size, n) ==
    IF size = None \/ size[1] <= 0 \/ n + size[1] > Len(obj)
    THEN SubSeq(obj, n + 1, Len(obj))
    ELSE SubSeq(obj, n + 1, n + size[1])

\* C17: on one S3OpenRead, whatever read() and seek(0) calls are interleaved
\* with the steps of a line iteration, the pass yields the lines of the whole
\* object, as it does with no such call; every read() returns the bytes it
\* returns on a reader that is never iterated; and every pass starts at the
\* first byte of the object with an empty buffer.
C17_IterationAndReadIndependent ==
    /\ lpc # "idle" =>
          /\ IsPrefixOf(line_out, SplitAtNewlines(obj))
          /\ IsPrefixOf(Join(key_read), obj)
          /\ (lpc = "for" /\ key_read = <<>>) => buf = <<>>
          /\ lpc = "done" => line_out = SplitAtNewlines(obj)
    /\ last_read # None =>
          last_read[1].data = ReadAlone(last_read[1].size, last_read[1].since)

\* a second pass has finished with two lines or more, and the last read(),
\* made while that pass was under way, returned bytes that do not start the
\* object
C17_Witness ==
    /\ passes = 2
    /\ lpc = "done"
    /\ Len(line_out) >= 2
    /\ last_read # None
    /\ last_read[1].during \in {"for", "while"}
    /\ last_read[1].since > 0
    /\ last_read[1].data # <<>>

----------------------------------------------------------------------------
(* Properties of ParseUri *)

HasPrefix(u, pre) == Len(u) >= Len(pre) /\ SubSeq(u, 1, Len(pre)) = pre

SchemeSep == <<":", "/", "/">>

IsS3Uri(u) == HasPrefix(u, S3 \o SchemeSep) \/ HasPrefix(u, S3N \o SchemeSep)

\* what follows "s3://" or "s3n://"
S3Rest(u) ==
    IF HasPrefix(u, S3 \o SchemeSep)
    THEN SubSeq(u, Len(S3) + 4, Len(u))
    ELSE SubSeq(u, Len(S3N) + 4, Len(u))

\* the text before the first "@", and the text after it (all of it without "@")
CredPart(r) == SubSeq(r, 1, FirstOf(r, {"@"}) - 1)
BucketKeyPart(r) ==
    IF FirstOf(r, {"@"}) = 0 THEN r ELSE SubSeq(r, FirstOf(r, {"@"}) + 1, Len(r))

\* the four malformed inputs
NoSlashCase(u) ==
    /\ IsS3Uri(u)
    /\ \/ CountOf(S3Rest(u), "@") = 0
       \/ CountOf(S3Rest(u), "@") = 1 /\ CountOf(CredPart(S3Rest(u)), ":") = 1
    /\ CountOf(BucketKeyPart(S3Rest(u)), "/") = 0
ManyAtCase(u) == IsS3Uri(u) /\ CountOf(S3Rest(u), "@") > 1
BadCredsCase(u) ==
    /\ IsS3Uri(u)
    /\ CountOf(S3Rest(u), "@") = 1
    /\ CountOf(CredPart(S3Rest(u)), ":") # 1
EmptyPathCase(u) == u \in {HDFS \o SchemeSep, FILE \o SchemeSep}

\* C11: parsing a uri raises the same kind of error (the code's RuntimeError)
\* in each malformed case: an s3 uri whose bucket/key part has no "/", an s3
\* uri with more than one "@", an s3 uri whose credential part is not exactly
\* two ":"-separated fields, and an hdfs or file uri whose path is empty.
C11_MalformedIsOneErrorKind ==
    (parsed # None /\ (NoSlashCase(uri) \/ ManyAtCase(uri) \/ BadCredsCase(uri)
                        \/ EmptyPathCase(uri)))
        => parsed[1].err = "RuntimeError"

\* C12: "s3://ID:SECRET@BUCKET/KEY" resolves to bucket BUCKET, key KEY (which
\* may contain "/"), access id ID and secret SECRET; "s3://BUCKET/KEY" resolves
\* to BUCKET and KEY with both credentials absent; the credentials of a parsed
\* s3 uri are both present or both absent.
C12_S3FieldsResolved ==
    (parsed # None /\ IsS3Uri(uri)) =>
        LET r == S3Rest(uri)
            cred == CredPart(r)
            bk == BucketKeyPart(r)
            c == FirstOf(cred, {":"})
            k == FirstOf(bk, {"/"})
            d == parsed[1]
        IN /\ (CountOf(r, "@") = 1 /\ CountOf(cred, ":") = 1 /\ k > 0) =>
                  /\ d.err = "none"
                  /\ d.access_id = Some(SubSeq(cred, 1, c - 1))
                  /\ d.access_secret = Some(SubSeq(cred, c + 1, Len(cred)))
                  /\ d.bucket_id = Some(SubSeq(bk, 1, k - 1))
                  /\ d.key_id = Some(SubSeq(bk, k + 1, Len(bk)))
           /\ (CountOf(r, "@") = 0 /\ k > 0) =>
                  /\ d.err = "none"
                  /\ d.bucket_id = Some(SubSeq(bk, 1, k - 1))
                  /\ d.key_id = Some(SubSeq(bk, k + 1, Len(bk)))
                  /\ d.access_id = None
                  /\ d.access_secret = None
           /\ d.err = "none" => (d.access_id = None <=> d.access_secret = None)

\* the documented uri with credentials has been parsed, its key holding "/"
C12_Witness ==
    /\ uri = S3CredExample
    /\ parsed # None
    /\ parsed[1].err = "none"
    /\ parsed[1].access_id = Some(<<"i", "d">>)
    /\ CountOf(parsed[1].key_id[1], "/") = 2

\* C13 as stated: "hdfs:///user/x/file" yields the path "user/x/file", and
\* "hdfs://" fails as a malformed uri.
C13_HdfsPathWithoutSlash ==
    parsed # None =>
        /\ uri = HdfsExample =>
              /\ parsed[1].err = "none"
              /\ parsed[1].uri_path = Some(<<"u", "s", "e", "r", "/", "x", "/", "f", "i", "l", "e">>)
        /\ uri = HDFS \o SchemeSep => parsed[1].err = "RuntimeError"

\* C13 amended: "hdfs:///user/x/file" yields the path "/user/x/file", with its
\* leading "/", and "hdfs://" fails as a malformed uri.
C13_HdfsPathKeepsSlash ==
    parsed # None =>
        /\ uri = HdfsExample =>
              /\ parsed[1].err = "none"
              /\ parsed[1].uri_path = Some(<<"/", "u", "s", "e", "r", "/", "x", "/", "f", "i", "l", "e">>)
        /\ uri = HDFS \o SchemeSep => parsed[1].err = "RuntimeError"

\* the hdfs example has been parsed
C13_Witness ==
    /\ uri = HdfsExample
    /\ parsed # None
    /\ parsed[1].scheme = HDFS
    /\ parsed[1].uri_path # None

----------------------------------------------------------------------------
(* Properties of smart_open *)

\* the combinations of scheme and mode that the specification supports
Supported(scheme, mode) ==
    \/ scheme = FILE /\ mode \in {"r", "rb", "w", "wb"}
    \/ scheme \in {S3, S3N} /\ mode \in {"r", "rb", "w", "wb"}
    \/ scheme = HDFS /\ mode \in {"r", "rb"}

\* C14: smart_open(uri, mode) on a well-formed uri fails with the unsupported
\* operation error (the code's NotImplementedError), and makes no reader or
\* writer, for every combination of scheme and mode other than file
\* read/write, s3 read/write and hdfs read.
C14_UnsupportedCombinationFails ==
    (/\ opened # None
     /\ opened[1].parsed_uri.err \in {"none", "NotImplementedError"}
     /\ ~Supported(opened[1].parsed_uri.scheme, opened[1].mode))
        => (opened[1].err = "NotImplementedError" /\ opened[1].made = "nothing")

----------------------------------------------------------------------------
(* Specification of ParseUri *)

UriInit == ParseUri_init /\ WriteIdle /\ LinesIdle /\ BucketIdle /\ ReadIdle

SpecUri == UriInit /\ [][UriNext]_vars

----------------------------------------------------------------------------
(* Specification of smart_open *)

OpenInit == smart_open_init /\ WriteIdle /\ LinesIdle /\ BucketIdle /\ ReadIdle

SpecOpen == OpenInit /\ [][OpenNext]_vars

----------------------------------------------------------------------------
(* Specification of S3OpenRead *)

ReadInit ==
    S3OpenRead_init /\ LinesIdle /\ WriteIdle /\ BucketIdle /\ UriIdle

SpecRead == ReadInit /\ [][ReadNext]_vars

====
